---- MODULE Spec2Model ----
(***************************************************************************)
(* aioupnp (lbryio/txupnp): the Gateway facade of aioupnp/gateway.py, its  *)
(* descriptor extractor get_action_list, the command binder                *)
(* Gateway.register_commands and the SOAP response deserializer that       *)
(* aioupnp/serialization/test_soap.py exercises.                           *)
(***************************************************************************)
EXTENDS Integers, Sequences, FiniteSets, TLC

VARIABLES
    \* ---- Gateway (gateway.py:55-195) ----
    pc,                     \* position of discover_gateway / discover_commands
    failure,                \* the exception that ended the run, "" when none
    passes,                 \* number of discover_commands calls made so far
    handed,                 \* discover_gateway has returned the gateway to its caller
    device,                 \* self._device is set
    devices,                \* self._devices
    services_list,          \* self._services
    idx,                    \* position of the loop of discover_commands over self.services.keys()
    registered_commands,    \* self._registered_commands : method -> serviceType
    unsupported_actions,    \* self._unsupported_actions : serviceType -> list of action names
    commands,               \* attributes of self.commands (SCPDCommands instance)
    \* ---- history of the current run, for stating the properties ----
    ssdp,                   \* the m_search exchange: idle / pending / done / timeout
    descriptor,             \* the top-level scpd_get of the current pass
    outcome,                \* per service position of the current pass, what register_commands did
    discovered,             \* per service position of the current pass, the extracted ActionSpec list
    passRegistered,         \* what the current pass alone wrote to _registered_commands
    passUnsupported,        \* what the current pass alone wrote to _unsupported_actions
    everDiscovered,         \* <<serviceType, action name>> pairs extracted in any pass
    \* ---- get_action_list called on its own (gateway.py:21-52) ----
    exAction, exNs, exBare, exSeq,
    \* ---- deserialize_soap_post_response called on its own ----
    response, soapResult

gatewayVars == <<pc, failure, passes, handed, device, devices, services_list, idx,
                 registered_commands, unsupported_actions, commands,
                 ssdp, descriptor, outcome, discovered, passRegistered,
                 passUnsupported, everDiscovered>>
extractVars == <<exAction, exNs, exBare, exSeq>>
soapVars == <<response, soapResult>>
vars == <<gatewayVars, extractVars, soapVars>>

\* ------------------------------------------------------------------------
\* Bounds of the model
\* ------------------------------------------------------------------------
MaxServices == 2     \* services in a device tree
MaxPasses == 2       \* discover_commands calls on one Gateway
MaxArgs == 2         \* arguments in an argumentList given to get_action_list
MaxPad == 1          \* whitespace tokens on each side of a child element's text

\* ------------------------------------------------------------------------
\* Values of the decoded XML mappings
\* ------------------------------------------------------------------------
\* A key that is missing from a mapping.
AbsentV == [t |-> "absent"]
\* The empty string some vendors emit for an empty element.
EmptyStr == [t |-> "str"]
\* A Python list.
ListV(items) == [t |-> "list", items |-> items]
\* <argument><name>n</name><direction>d</direction></argument>
Arg(n, d) == [t |-> "dict", name |-> n, direction |-> d]
\* <argumentList><argument>...</argument></argumentList>
ArgumentList(argument) == [t |-> "dict", argument |-> argument]
\* <action><name>n</name> argumentList </action>
Action(n, argumentList) == [t |-> "dict", name |-> n, argumentList |-> argumentList]
\* <actionList><action>...</action></actionList>
ActionList(action) == [t |-> "dict", action |-> action]
\* A service description; ns says whether its keys still carry the "{SERVICE}" prefix.
Doc(ns, actionList) == [ns |-> ns, actionList |-> actionList]

\* ------------------------------------------------------------------------
\* get_action_list  (gateway.py:21-52)
\* ------------------------------------------------------------------------
\* A returned value, or a raised exception.
Ok(v) == [exc |-> "", val |-> v]
Raise(e) == [exc |-> e, val |-> <<>>]

\* flatten_keys(element_dict, "{%s}" % SERVICE): strips the namespace prefix of the keys.
flatten_keys(element_dict) == [element_dict EXCEPT !.ns = FALSE]

\* "actionList" in service_info
HasActionList(service_info) == ~service_info.ns /\ service_info.actionList.t # "absent"

\* len(action_list): 0 for the empty string, 1 for the mapping {"action": ...}
PyLen(action_list) == IF action_list.t = "str" THEN 0 ELSE 1

\* if not isinstance(arg_dicts, list): arg_dicts = [arg_dicts]
AsArgList(arg_dicts) == IF arg_dicts.t = "list" THEN arg_dicts.items ELSE <<arg_dicts>>

\* [i['name'] for i in arg_dicts if i['direction'] == direction]
ArgNames(arg_dicts, direction) ==
    LET sel == SelectSeq(arg_dicts, LAMBDA i : i.direction = direction)
    IN [k \in 1..Len(sel) |-> sel[k].name]

\* X['argumentList']['argument'] on an action mapping, as line 32 subscripts it.
SubscriptArguments(action) ==
    IF action.argumentList.t = "absent" THEN Raise("KeyError")
    ELSE IF action.argumentList.t = "str" THEN Raise("TypeError")
    ELSE Ok(AsArgList(action.argumentList.argument))

\* lines 31-39: action_list["action"] is one mapping
BareAction(action) ==
    LET args == SubscriptArguments(action)
    IN IF args.exc # "" THEN args
       ELSE Ok(<< <<action.name, ArgNames(args.val, "in"), ArgNames(args.val, "out")>> >>)

\* lines 41-51: one iteration of the loop over a sequence of actions
ListedAction(action) ==
    IF action.argumentList.t \in {"absent", "str"}     \* not action.get('argumentList')
    THEN <<action.name, <<>>, <<>>>>
    ELSE LET arg_dicts == AsArgList(action.argumentList.argument)
         IN <<action.name, ArgNames(arg_dicts, "in"), ArgNames(arg_dicts, "out")>>

get_action_list(element_dict) ==
    LET service_info == flatten_keys(element_dict)
    IN IF ~HasActionList(service_info) THEN Ok(<<>>)
       ELSE LET action_list == service_info.actionList
            IN IF PyLen(action_list) = 0 THEN Ok(<<>>)
               ELSE IF action_list.action.t = "dict" THEN BareAction(action_list.action)
               ELSE Ok([k \in 1..Len(action_list.action.items) |->
                            ListedAction(action_list.action.items[k])])

\* ------------------------------------------------------------------------
\* Inputs of get_action_list
\* ------------------------------------------------------------------------
ActionNames == {"GetExternalIPAddress", "AddPortMapping"}
ArgumentNames == {"NewExternalIPAddress", "NewRemoteHost"}
Directions == {"in", "out"}
Args == {Arg(n, d) : n \in ArgumentNames, d \in Directions}
ArgSeqs == UNION {[1..k -> Args] : k \in 0..MaxArgs}
ArgumentLists == {AbsentV, EmptyStr}
                 \cup {ArgumentList(a) : a \in Args}
                 \cup {ArgumentList(ListV(s)) : s \in ArgSeqs}
Actions == {Action(n, al) : n \in ActionNames, al \in ArgumentLists}

Pending == [exc |-> "pending", val |-> <<>>]

InitExtract ==
    /\ exAction \in Actions
    /\ exNs \in BOOLEAN
    /\ exBare = Pending
    /\ exSeq = Pending

\* get_action_list on the descriptor whose actionList.action is the bare mapping
ExtractBare ==
    /\ exBare = Pending
    /\ exBare' = get_action_list(Doc(exNs, ActionList(exAction)))
    /\ UNCHANGED <<exAction, exNs, exSeq, gatewayVars, soapVars>>

\* get_action_list on the descriptor whose actionList.action is the one-element sequence
ExtractSeq ==
    /\ exSeq = Pending
    /\ exSeq' = get_action_list(Doc(exNs, ActionList(ListV(<<exAction>>))))
    /\ UNCHANGED <<exAction, exNs, exBare, gatewayVars, soapVars>>

\* ------------------------------------------------------------------------
\* Type annotations of the command signatures (typing module objects)
\* ------------------------------------------------------------------------
\* A class: isinstance(x, type) holds.
ClassT(name) == [kind |-> "class", name |-> name]
StrT == ClassT("str")
IntT == ClassT("int")
NoneTypeT == ClassT("NoneType")
\* Tuple[...] and Union[...]: not classes, their parameters are __args__.
TupleT(args) == [kind |-> "generic", origin |-> "Tuple", args |-> args]
UnionNoneStr == [kind |-> "generic", origin |-> "Union", args |-> <<NoneTypeT, StrT>>]
\* The annotation "-> None" (and a missing return annotation): falsy.
NoneAnn == [kind |-> "None"]

\* Python strings as sequences of characters; None is the empty tuple tagged below.
PyNone == [py |-> "None"]
PyStr(chars) == [py |-> "str", chars |-> chars]

\* str.lower() on the characters the model uses
LowerChar(c) ==
    CASE c = "N" -> "n" [] c = "O" -> "o" [] c = "E" -> "e"
      [] c = "I" -> "i" [] c = "L" -> "l" [] OTHER -> c
Lower(chars) == [k \in 1..Len(chars) |-> LowerChar(chars[k])]

\* gateway.py:17  lambda x: x if x is not None and str(x).lower() not in ['none', 'nil'] else None
nullable_str_lambda(x) ==
    IF x # PyNone /\ Lower(x.chars) \notin {<<"n", "o", "n", "e">>, <<"n", "i", "l">>}
    THEN x ELSE PyNone

\* The lambda object stored in return_type_lambas.
NullableStrLambda == [kind |-> "lambda", name |-> "nullable_str_lambda"]

\* return_type_lambas without its entry: no slot is coerced.
return_type_lambas_get_Identity(a) == a

\* gateway.py:16-18 and the .get(a, a) of line 174
return_type_lambas_get(a) == IF a = UnionNoneStr THEN NullableStrLambda ELSE a

\* ------------------------------------------------------------------------
\* SCPDCommands: the statically known command signatures (aioupnp/commands.py)
\* ------------------------------------------------------------------------
\* The table is static: line 185 replaces the attribute of a bound name by the
\* SCPDCommand, and a later lookup of that name (another service, another pass)
\* is taken to find the same annotations again.
KnownCommands == {"GetExternalIPAddress", "AddPortMapping", "GetGenericPortMappingEntry"}

\* current.__annotations__ without the 'return' entry
ParamAnnotations(name) ==
    CASE name = "GetExternalIPAddress" -> <<>>
      [] name = "AddPortMapping" -> [NewRemoteHost |-> StrT, NewExternalPort |-> IntT]
      [] name = "GetGenericPortMappingEntry" -> [NewPortMappingIndex |-> IntT]

\* current.__annotations__.get('return', None)
ReturnAnnotation(name) ==
    CASE name = "GetExternalIPAddress" -> StrT
      [] name = "AddPortMapping" -> NoneAnn
      [] name = "GetGenericPortMappingEntry" -> TupleT(<<UnionNoneStr, IntT>>)

\* An attribute of the SCPDCommands instance before it is bound.
Method == [kind |-> "method"]

\* ------------------------------------------------------------------------
\* Gateway.register_commands, the binding loop  (gateway.py:165-194)
\* ------------------------------------------------------------------------
Min(a, b) == IF a < b THEN a ELSE b

\* {r: t for r, t in zip(outputs, return_types)}: zip stops at the shorter list and a
\* repeated key keeps its last value.
ZipDict(outputs, return_types) ==
    LET n == Min(Len(outputs), Len(return_types))
    IN [r \in {outputs[i] : i \in 1..n} |->
            return_types[CHOOSE i \in 1..n :
                            /\ outputs[i] = r
                            /\ \A j \in 1..n : outputs[j] = r => j <= i]]

\* lines 169-175
ReturnTypes(return_types, outputs) ==
    IF return_types.kind = "None" THEN return_types
    ELSE IF return_types.kind = "class" THEN ZipDict(outputs, <<return_types>>)
    ELSE ZipDict(outputs, [i \in 1..Len(return_types.args) |->
                               return_type_lambas_get(return_types.args[i])])

\* lines 181-183: SCPDCommand(base_ip, port, controlURL, serviceType, name, param_types,
\* return_types, inputs, outputs, soap_socket)
SCPDCommand(service, name, param_types, return_types, inputs, outputs) ==
    [kind |-> "SCPDCommand", control_url |-> service.controlURL,
     service_id |-> service.serviceType, method |-> name,
     param_types |-> param_types, return_types |-> return_types,
     param_order |-> inputs, return_order |-> outputs]

\* getattr(self.commands, name) does not raise AttributeError
HasCommand(cmds, name) == name \in DOMAIN cmds

\* dict.get(key, default)
DictGet(d, key, default) == IF key \in DOMAIN d THEN d[key] ELSE default

\* The list is appended to but never stored back.
RecordUnsupported_Lost(st, service, name) == st

\* lines 190-192: the except AttributeError branch
RecordUnsupported(st, service, name) ==
    [st EXCEPT !.unsupported =
        (service.serviceType :> Append(DictGet(st.unsupported, service.serviceType, <<>>), name))
        @@ st.unsupported]

\* lines 167-187: the try branch
RegisterCommand(st, service, name, inputs, outputs) ==
    LET command == SCPDCommand(service, name, ParamAnnotations(name),
                               ReturnTypes(ReturnAnnotation(name), outputs), inputs, outputs)
    IN [st EXCEPT !.commands = (command.method :> command) @@ st.commands,
                  !.registered = (command.method :> service.serviceType) @@ st.registered]

\* The ledger branch written as "finally" instead of "except AttributeError".
BindAction_Both(st, service, action) ==
    RecordUnsupported(IF HasCommand(st.commands, action[1])
                      THEN RegisterCommand(st, service, action[1], action[2], action[3])
                      ELSE st,
                      service, action[1])

\* lines 165-194: one iteration of "for name, inputs, outputs in action_list"
BindAction(st, service, action) ==
    IF HasCommand(st.commands, action[1])
    THEN RegisterCommand(st, service, action[1], action[2], action[3])
    ELSE RecordUnsupported(st, service, action[1])

RECURSIVE RegisterLoop(_, _, _, _)
\* lines 165-194: the whole loop, from its k-th iteration on
RegisterLoop(st, service, action_list, k) ==
    IF k > Len(action_list) THEN st
    ELSE RegisterLoop(BindAction(st, service, action_list[k]), service, action_list, k + 1)

\* ------------------------------------------------------------------------
\* The gateway's answers: device trees and service descriptions
\* ------------------------------------------------------------------------
ServiceTypes == {"WANIPConnection:1", "WANPPPConnection:1"}

\* aioupnp.device.Service: serviceType, controlURL, SCPDURL ("" when the descriptor has none)
Service(serviceType, SCPDURL) ==
    [serviceType |-> serviceType, controlURL |-> "/ctl", SCPDURL |-> SCPDURL]

SCPDURLs == {"", "/scpd.xml"}

\* The services of a device tree, in document order (sub-devices may repeat a type).
ServiceSeqs ==
    UNION {[1..k -> {Service(t, u) : t \in ServiceTypes, u \in SCPDURLs}] : k \in 0..MaxServices}

\* What scpd_get yields for the device descriptor: an exception, no document, a document.
DescriptorResponses ==
    {[kind |-> "raise"], [kind |-> "none"]}
    \cup {[kind |-> "doc", udn |-> "uuid:igd", serviceList |-> s] : s \in ServiceSeqs}

Out(n) == Arg(n, "out")
In(n) == Arg(n, "in")

\* Service descriptions a gateway serves.
GatewayDocs ==
    { Doc(TRUE, EmptyStr),
      Doc(TRUE, ActionList(ListV(<<
          Action("GetExternalIPAddress", ArgumentList(Out("NewExternalIPAddress"))),
          Action("X_GetVendorInfo", AbsentV)>>))),
      Doc(TRUE, ActionList(ListV(<<
          Action("GetGenericPortMappingEntry", ArgumentList(ListV(<<
              In("NewPortMappingIndex"), Out("NewRemoteHost"), Out("NewExternalPort")>>))),
          Action("AddPortMapping", ArgumentList(ListV(<<
              In("NewRemoteHost"), In("NewExternalPort")>>)))>>))),
      Doc(FALSE, ActionList(
          Action("GetGenericPortMappingEntry", ArgumentList(ListV(<<
              In("NewPortMappingIndex"), Out("NewRemoteHost"), Out("NewExternalPort"),
              Out("NewProtocol")>>))))),
      Doc(TRUE, ActionList(Action("X_GetVendorInfo", AbsentV))) }

\* What scpd_get yields for a service description.
ScpdResponses ==
    {[kind |-> "raise"], [kind |-> "none"]} \cup {[kind |-> "doc", doc |-> d] : d \in GatewayDocs}

\* ------------------------------------------------------------------------
\* Gateway  (gateway.py:55-195)
\* ------------------------------------------------------------------------
\* Device(self._devices, self._services, **device): fills the two lists from the tree.
DeviceServices(resp) == IF resp.kind = "doc" THEN resp.serviceList ELSE <<>>
DeviceDevices(resp) == IF resp.kind = "doc" THEN <<resp.udn>> ELSE <<>>

\* lines 106-110: {service.serviceType: service for service in self._services}
\* (a repeated key keeps its last value)
ServicesOf(dev, list) ==
    IF ~dev THEN <<>>
    ELSE [t \in {list[i].serviceType : i \in 1..Len(list)} |->
            list[CHOOSE i \in 1..Len(list) :
                    /\ list[i].serviceType = t
                    /\ \A j \in 1..Len(list) : list[j].serviceType = t => j <= i]]
services == ServicesOf(device, services_list)

\* self.services.keys(): the keys in insertion order (first occurrence in self._services)
KeysOf(dev, list) ==
    LET firsts == SelectSeq([i \in 1..Len(list) |-> i],
                            LAMBDA i : \A j \in 1..(i - 1) :
                                list[j].serviceType # list[i].serviceType)
    IN IF ~dev THEN <<>> ELSE [k \in 1..Len(firsts) |-> list[firsts[k]].serviceType]
ServiceKeys == KeysOf(device, services_list)

\* lines 112-116
devicesIndex == IF ~device THEN {} ELSE {devices[i] : i \in 1..Len(devices)}

\* line 124-128
debug_commands == [available |-> registered_commands, failed |-> unsupported_actions]

InitGateway ==
    /\ pc = "uninitialized"
    /\ failure = ""
    /\ passes = 0
    /\ handed = FALSE
    /\ device = FALSE
    /\ devices = <<>>
    /\ services_list = <<>>
    /\ idx = 0
    /\ registered_commands = <<>>
    /\ unsupported_actions = <<>>
    /\ commands = [n \in KnownCommands |-> Method]
    /\ ssdp = "idle"
    /\ descriptor = "idle"
    /\ outcome = <<>>
    /\ discovered = <<>>
    /\ passRegistered = <<>>
    /\ passUnsupported = <<>>
    /\ everDiscovered = {}

programVars == <<device, devices, services_list, idx, registered_commands,
                 unsupported_actions, commands>>
passHistory == <<outcome, discovered, passRegistered, passUnsupported, everDiscovered>>

\* An exception leaves the coroutine: the run is over.
Fail(exc) == pc' = "failed" /\ failure' = exc

\* line 134: discover_gateway awaits m_search
MSearchStart ==
    /\ pc = "uninitialized"
    /\ pc' = "discovering"
    /\ ssdp' = "pending"
    /\ UNCHANGED <<failure, passes, handed, programVars, descriptor, passHistory>>
    /\ UNCHANGED <<extractVars, soapVars>>

\* lines 134-135: m_search times out, or answers and the Gateway is constructed
\* (lines 79-82 raise IndexError on a location that is not http://host:port/path)
MSearchDone ==
    /\ pc = "discovering"
    /\ \E answer \in {"timeout", "malformed location", "datagram"} :
         \/ /\ answer = "timeout"
            /\ ssdp' = "timeout"
            /\ Fail("DiscoveryTimeout")
         \/ /\ answer = "malformed location"
            /\ ssdp' = "done"
            /\ Fail("IndexError")
         \/ /\ answer = "datagram"
            /\ ssdp' = "done"
            /\ pc' = "constructed"
            /\ UNCHANGED failure
    /\ UNCHANGED <<passes, handed, programVars, descriptor, passHistory>>
    /\ UNCHANGED <<extractVars, soapVars>>

\* line 140: discover_commands awaits scpd_get for the device descriptor; called by
\* discover_gateway (line 136) and again by the caller that holds the gateway
DiscoverCommands ==
    /\ \/ pc = "constructed"
       \/ handed /\ pc \in {"ready", "failed"}
    /\ passes < MaxPasses
    /\ passes' = passes + 1
    /\ pc' = "descriptor-fetch"
    /\ failure' = ""
    /\ descriptor' = "pending"
    /\ outcome' = <<>>
    /\ discovered' = <<>>
    /\ passRegistered' = <<>>
    /\ passUnsupported' = <<>>
    /\ UNCHANGED <<handed, programVars, ssdp, everDiscovered>>
    /\ UNCHANGED <<extractVars, soapVars>>

\* lines 140-152: the descriptor fetch ends; the device tree is built and the loop starts
DescriptorDone ==
    /\ pc = "descriptor-fetch"
    /\ \E resp \in DescriptorResponses :
         \/ /\ resp.kind = "raise"
            /\ descriptor' = "raise"
            /\ Fail("fetch error")
            /\ UNCHANGED <<programVars, outcome, discovered>>
         \/ /\ resp.kind # "raise"
            /\ descriptor' = "done"
            /\ device' = TRUE
            /\ services_list' = DeviceServices(resp)
            /\ devices' = DeviceDevices(resp)
            /\ idx' = 1
            /\ pc' = "binding"
            /\ outcome' = [i \in 1..Len(KeysOf(TRUE, DeviceServices(resp))) |-> "unvisited"]
            /\ discovered' = [i \in 1..Len(KeysOf(TRUE, DeviceServices(resp))) |-> <<>>]
            /\ UNCHANGED <<failure, registered_commands, unsupported_actions, commands>>
    /\ UNCHANGED <<passes, handed, ssdp, passRegistered, passUnsupported, everDiscovered>>
    /\ UNCHANGED <<extractVars, soapVars>>

\* The loop stops one service early.
MoreServices_OffByOne(i, keys) == i < Len(keys)

\* the loop of line 152 has a next service
MoreServices(i, keys) == i <= Len(keys)

\* lines 153-159: register_commands is called for the next service and awaits scpd_get
RegisterCommandsBegin ==
    /\ pc = "binding"
    /\ MoreServices(idx, ServiceKeys)
    /\ LET service == services[ServiceKeys[idx]]
       IN IF service.SCPDURL = ""
          THEN /\ Fail("no scpd url")
               /\ outcome' = [outcome EXCEPT ![idx] = "no scpd url"]
          ELSE /\ pc' = "scpd-fetch"
               /\ outcome' = [outcome EXCEPT ![idx] = "fetching"]
               /\ UNCHANGED failure
    /\ UNCHANGED <<passes, handed, programVars, ssdp, descriptor, discovered,
                   passRegistered, passUnsupported, everDiscovered>>
    /\ UNCHANGED <<extractVars, soapVars>>

\* lines 158-194: the service's fetch ends; its actions are extracted and bound
ScpdGetDone ==
    /\ pc = "scpd-fetch"
    /\ \E service_dict \in ScpdResponses :
         LET service == services[ServiceKeys[idx]]
             action_list == get_action_list(service_dict.doc)
             st == RegisterLoop([commands |-> commands, registered |-> registered_commands,
                                 unsupported |-> unsupported_actions],
                                service, action_list.val, 1)
             fresh == RegisterLoop([commands |-> commands, registered |-> passRegistered,
                                    unsupported |-> passUnsupported],
                                   service, action_list.val, 1)
         IN \/ /\ service_dict.kind = "raise"
               /\ Fail("fetch error")
               /\ outcome' = [outcome EXCEPT ![idx] = "fetch error"]
               /\ UNCHANGED <<idx, registered_commands, unsupported_actions, commands,
                              discovered, passRegistered, passUnsupported, everDiscovered>>
            \/ /\ service_dict.kind = "none"
               /\ pc' = "binding"
               /\ idx' = idx + 1
               /\ outcome' = [outcome EXCEPT ![idx] = "no document"]
               /\ UNCHANGED <<failure, registered_commands, unsupported_actions, commands,
                              discovered, passRegistered, passUnsupported, everDiscovered>>
            \/ /\ service_dict.kind = "doc"
               /\ action_list.exc # ""
               /\ Fail(action_list.exc)
               /\ outcome' = [outcome EXCEPT ![idx] = "extract error"]
               /\ UNCHANGED <<idx, registered_commands, unsupported_actions, commands,
                              discovered, passRegistered, passUnsupported, everDiscovered>>
            \/ /\ service_dict.kind = "doc"
               /\ action_list.exc = ""
               /\ commands' = st.commands
               /\ registered_commands' = st.registered
               /\ unsupported_actions' = st.unsupported
               /\ pc' = "binding"
               /\ idx' = idx + 1
               /\ outcome' = [outcome EXCEPT ![idx] = "bound"]
               /\ discovered' = [discovered EXCEPT ![idx] = action_list.val]
               /\ passRegistered' = fresh.registered
               /\ passUnsupported' = fresh.unsupported
               /\ everDiscovered' = everDiscovered \cup
                      {<<service.serviceType, action_list.val[k][1]>> :
                           k \in 1..Len(action_list.val)}
               /\ UNCHANGED failure
    /\ UNCHANGED <<passes, handed, device, devices, services_list, ssdp, descriptor>>
    /\ UNCHANGED <<extractVars, soapVars>>

\* lines 152-153 and 137: the loop is over, discover_commands returns and the caller
\* holds the gateway
DiscoverCommandsReturn ==
    /\ pc = "binding"
    /\ ~MoreServices(idx, ServiceKeys)
    /\ pc' = "ready"
    /\ handed' = TRUE
    /\ UNCHANGED <<failure, passes, programVars, ssdp, descriptor, passHistory>>
    /\ UNCHANGED <<extractVars, soapVars>>

\* ------------------------------------------------------------------------
\* Specifications
\* ------------------------------------------------------------------------
InitSoapIdle == response = <<>> /\ soapResult = <<>>
InitExtractIdle == exAction = AbsentV /\ exNs = FALSE /\ exBare = Pending /\ exSeq = Pending

Init == InitGateway /\ InitExtractIdle /\ InitSoapIdle
Next ==
    \/ MSearchStart
    \/ MSearchDone
    \/ DiscoverCommands
    \/ DescriptorDone
    \/ RegisterCommandsBegin
    \/ ScpdGetDone
    \/ DiscoverCommandsReturn
Spec == Init /\ [][Next]_vars

InitX == InitExtract /\ InitGateway /\ InitSoapIdle
NextX == ExtractBare \/ ExtractSeq
SpecExtract == InitX /\ [][NextX]_vars

\* ------------------------------------------------------------------------
\* Vocabulary of the properties
\* ------------------------------------------------------------------------
\* A discover_commands call has ended, by returning or by an exception.
PassOver == passes >= 1 /\ pc \in {"ready", "failed"}
\* The positions of the loop of the current pass.
Positions == 1..Len(outcome)
\* register_commands ran to its end for the service at position i.
Processed(i) == outcome[i] \in {"bound", "no document"}
\* The action names extracted for the service at position i in the current pass.
NamesAt(i) == {discovered[i][k][1] : k \in 1..Len(discovered[i])}
\* name is in the unsupported-ledger list of serviceType.
InLedger(serviceType, name) ==
    /\ serviceType \in DOMAIN unsupported_actions
    /\ \E k \in 1..Len(unsupported_actions[serviceType]) :
           unsupported_actions[serviceType][k] = name
\* name is a bound command of self.commands.
Bound(name) == name \in DOMAIN commands /\ commands[name].kind = "SCPDCommand"
\* Every service of the tree carries an SCPD-URL.
AllHaveSCPDURL == \A i \in 1..Len(ServiceKeys) : services[ServiceKeys[i]].SCPDURL # ""

\* ------------------------------------------------------------------------
\* C1. Binder isolation: when a pass is over and the SCPD fetch of a service A
\* failed (no document, or a transport error), every other service B of the tree
\* has been processed and each known action of B is in the registry. (Stated for
\* trees whose services all carry an SCPD-URL and whose descriptions extract.)
\* ------------------------------------------------------------------------
C1_BinderIsolation ==
    (PassOver /\ descriptor = "done" /\ AllHaveSCPDURL
              /\ \A i \in Positions : outcome[i] # "extract error")
    => \A a, b \in Positions :
          (a # b /\ outcome[a] \in {"no document", "fetch error"} /\ outcome[b] # "fetch error")
          => /\ Processed(b)
             /\ \A n \in NamesAt(b) \cap KnownCommands : n \in DOMAIN registered_commands

\* ------------------------------------------------------------------------
\* C2. A service without SCPD-URL is a fault of that service only: the pass does
\* not abort on it, every service that has an SCPD-URL is still processed and the
\* gateway becomes ready. (Stated for passes in which no fetch and no extraction
\* fails.)
\* ------------------------------------------------------------------------
C2_MissingSCPDURLIsolated ==
    (PassOver /\ descriptor = "done" /\ ~AllHaveSCPDURL
              /\ \A i \in Positions : outcome[i] \notin {"fetch error", "extract error"})
    => /\ pc = "ready"
       /\ \A i \in Positions : services[ServiceKeys[i]].SCPDURL # "" => Processed(i)

\* ------------------------------------------------------------------------
\* C3. Re-running discovery replaces the derived state wholesale: when a pass has
\* returned, the registry, the ledger and the bound commands are exactly what
\* that pass produced, and the indices list each service and device once.
\* ------------------------------------------------------------------------
C3_WholesaleReplace ==
    pc = "ready" =>
       /\ registered_commands = passRegistered
       /\ unsupported_actions = passUnsupported
       /\ \A n \in DOMAIN commands : Bound(n) => n \in DOMAIN passRegistered
       /\ DOMAIN services = {services_list[i].serviceType : i \in 1..Len(services_list)}
       /\ Cardinality(devicesIndex) = Len(devices)

\* ------------------------------------------------------------------------
\* C4 as the spec states it: after a binding pass a known CommandSignature with no
\* matching discovered action on a service is in the unsupported ledger under
\* that service's type, and is not in the bound-command table.
\* ------------------------------------------------------------------------
C4_LedgerHoldsUnmatchedSignatures ==
    pc = "ready" =>
       \A i \in Positions : outcome[i] = "bound" =>
          \A k \in KnownCommands \ NamesAt(i) :
             /\ InLedger(ServiceKeys[i], k)
             /\ k \notin DOMAIN debug_commands.available

\* ------------------------------------------------------------------------
\* C4, amended: a discovered action with no known CommandSignature of its name is
\* in the unsupported ledger under that service's type and is not in the
\* bound-command table; a known CommandSignature that no service ever exposed is
\* neither in the ledger nor in the bound-command table.
\* ------------------------------------------------------------------------
C4_LedgerHoldsUnknownActions ==
    /\ \A i \in Positions : outcome[i] = "bound" =>
          \A n \in NamesAt(i) \ KnownCommands :
             /\ InLedger(ServiceKeys[i], n)
             /\ n \notin DOMAIN debug_commands.available
             /\ ~Bound(n)
    /\ \A k \in KnownCommands :
          (\A t \in ServiceTypes : <<t, k>> \notin everDiscovered)
          => /\ \A t \in DOMAIN debug_commands.failed : ~InLedger(t, k)
             /\ k \notin DOMAIN debug_commands.available
             /\ ~Bound(k)

\* A pass has bound a service exposing a known and an unknown action, and
\* AddPortMapping was never exposed.
C4_Witness ==
    /\ pc = "ready"
    /\ \E i \in Positions :
          /\ outcome[i] = "bound"
          /\ "X_GetVendorInfo" \in NamesAt(i)
          /\ "GetExternalIPAddress" \in NamesAt(i)
    /\ \A t \in ServiceTypes : <<t, "AddPortMapping">> \notin everDiscovered

\* ------------------------------------------------------------------------
\* C5. Extractor normalization: for every action, the bare mapping and the
\* one-element sequence give the same ActionSpec list, and neither call raises.
\* ------------------------------------------------------------------------
C5_BareEqualsSingleton ==
    (exBare # Pending /\ exSeq # Pending)
    => /\ exBare.exc = ""
       /\ exSeq.exc = ""
       /\ exBare.val = exSeq.val

\* ------------------------------------------------------------------------
\* C7. Binding partition: right after register_commands has processed a service
\* whose description was fetched, each discovered name with a known signature is
\* in the registry mapped to that service's type and not in that type's ledger
\* list; each discovered name with none is in that list and not in the registry;
\* and at all times a registry entry or bound command is for a known name that
\* was discovered on the service type it is mapped to.
\* ------------------------------------------------------------------------
JustRegistered(i) == pc = "binding" /\ idx = i + 1 /\ outcome[i] = "bound"

C8_OwnSliceOnly ==
    \A i \in Positions : outcome[i] = "bound" =>
       \A n \in NamesAt(i) \cap KnownCommands :
          /\ n \in DOMAIN registered_commands
          /\ registered_commands[n] = ServiceKeys[i]

Declared(n) ==
    IF ReturnAnnotation(n).kind = "class" THEN <<ReturnAnnotation(n)>> ELSE ReturnAnnotation(n).args
\* The slot a declared type fills.
Slot(t) == IF t = UnionNoneStr THEN NullableStrLambda ELSE t

Chars(n, o, e) == PyStr(<<n, o, e>>)
\* Values the coercion turns into an absent value, and values it must leave alone.
SentinelValues ==
    {PyNone, PyStr(<<"n", "o", "n", "e">>), PyStr(<<"N", "o", "n", "e">>),
     PyStr(<<"N", "O", "N", "E">>), PyStr(<<"n", "O", "n", "E">>),
     Chars("n", "i", "l"), Chars("N", "I", "L"), Chars("N", "i", "l")}
OrdinaryValues ==
    {PyStr(<<>>), PyStr(<<"1", ".", "2">>), PyStr(<<"n", "o", "n", "e", "e">>),
     PyStr(<<"n", "o">>), Chars("n", "u", "l"), PyStr(<<"N", "o", "n", "e", " ">>)}
CoercionAsStated ==
    /\ \A x \in SentinelValues : nullable_str_lambda(x) = PyNone
    /\ \A x \in OrdinaryValues : nullable_str_lambda(x) = x

Whitespace == {" ", "\n"}

RECURSIVE LStrip(_)
\* str.lstrip()
LStrip(text) ==
    IF text # <<>> /\ Head(text) \in Whitespace THEN LStrip(Tail(text)) ELSE text

RECURSIVE RStrip(_)
\* str.rstrip()
RStrip(text) ==
    IF text # <<>> /\ text[Len(text)] \in Whitespace
    THEN RStrip(SubSeq(text, 1, Len(text) - 1)) ELSE text

\* Only the leading whitespace is removed.
Trim_LeftOnly(text) == LStrip(text)

\* str.strip(): the text content of an element, trimmed
Trim(text) == RStrip(LStrip(text))

\* An XML element <prefix:local>text children</prefix:local>
Element(prefix, local, text, children) ==
    [prefix |-> prefix, local |-> local, text |-> text, children |-> children]

\* The local name of an element: its tag with the namespace prefix dropped.
LocalName(element) == element.local

\* The elements of the SOAP body whose local name is name, whatever their prefix.
Find(body, name) == SelectSeq(body, LAMBDA element : LocalName(element) = name)

\* {child local name: trimmed text} of a response element
ChildMap(element) ==
    [n \in {LocalName(element.children[i]) : i \in 1..Len(element.children)} |->
        Trim(element.children[CHOOSE i \in 1..Len(element.children) :
                                LocalName(element.children[i]) = n].text)]

\* Contract B of the SOAP codec: status is the code of the status line, body the
\* elements inside <s:Envelope><s:Body>; the headers are not consulted.
deserialize_soap_post_response(resp, method_name) ==
    IF resp.status # 200 THEN Raise("SOAPFault")
    ELSE IF Find(resp.body, "Fault") # <<>> THEN Raise("SOAPFault")
    ELSE IF Find(resp.body, method_name \o "Response") = <<>> THEN Raise("MalformedResponse")
    ELSE Ok(ChildMap(Find(resp.body, method_name \o "Response")[1]))

\* test_soap.py:8
method == "GetExternalIPAddress"

\* test_soap.py:20-28
post_response ==
    [status |-> 200,
     headers |-> <<"CONTENT-LENGTH", "CONTENT-TYPE", "DATE", "EXT", "SERVER", "X-User-Agent">>,
     body |-> <<Element("u", "GetExternalIPAddressResponse", <<"\n">>,
                   <<Element("", "NewExternalIPAddress", <<"11.22.33.44">>, <<>>)>>)>>]

\* Responses given to the deserializer.
HeaderLists ==
    {post_response.headers,
     <<"Content-Length", "Content-Type">>,
     <<"content-length", "Content-Type", "X-Vendor">>}
Pads == UNION {[1..k -> Whitespace] : k \in 0..MaxPad}
ChildTexts(local) ==
    LET core == IF local = "NewExternalIPAddress" THEN <<"11.22.33.44">> ELSE <<"a", " ", "b">>
    IN {l \o core \o r : l \in Pads, r \in Pads}
ChildNames == {"NewExternalIPAddress", "NewConnectionStatus"}
Children ==
    {<<>>}
    \cup UNION {{<<Element(q, n, t, <<>>)>> : q \in {"", "u"}, t \in ChildTexts(n)}
                : n \in ChildNames}
    \cup UNION {{<<Element("", n1, t1, <<>>), Element("", n2, t2, <<>>)>> :
                    t1 \in ChildTexts(n1), t2 \in ChildTexts(n2)}
                : <<n1, n2>> \in {p \in ChildNames \X ChildNames : p[1] # p[2]}}
Responses ==
    {[status |-> st, headers |-> h, body |-> <<Element(q, local, <<>>, c)>>] :
        st \in {200, 500}, h \in HeaderLists, q \in {"u", "m"},
        local \in {"GetExternalIPAddressResponse", "Fault", "AddPortMappingResponse"},
        c \in Children}
    \cup {post_response}

InitSoap ==
    /\ response \in Responses
    /\ soapResult = Pending

\* test_soap.py:36-37: deserialize_soap_post_response(response, method, service_id=...)
Deserialize ==
    /\ soapResult = Pending
    /\ soapResult' = deserialize_soap_post_response(response, method)
    /\ UNCHANGED <<response, gatewayVars, extractVars>>

InitS == InitSoap /\ InitGateway /\ InitExtractIdle
NextS == Deserialize
SpecSoap == InitS /\ [][NextS]_vars

\* ------------------------------------------------------------------------
\* C6. Deserialization: for a 200 response whose body holds a
\* <methodName>Response element under any prefix (and no Fault element), the
\* result is the mapping from each child's local name to its text with the
\* surrounding whitespace removed, whatever the headers; for the response of
\* the test it is {'NewExternalIPAddress': '11.22.33.44'}.
\* ------------------------------------------------------------------------
\* text is inner with whitespace only before and after it, and inner has none at its ends.
IsTrimOf(inner, text) ==
    /\ inner = <<>> \/ (Head(inner) \notin Whitespace /\ inner[Len(inner)] \notin Whitespace)
    /\ \E a \in 0..Len(text) :
          /\ a + Len(inner) <= Len(text)
          /\ SubSeq(text, a + 1, a + Len(inner)) = inner
          /\ \A k \in (1..a) \cup ((a + Len(inner) + 1)..Len(text)) : text[k] \in Whitespace

Answered(resp) ==
    /\ resp.status = 200
    /\ Len(resp.body) = 1
    /\ resp.body[1].local = "GetExternalIPAddressResponse"

====
